---- MODULE Spec2Model ----
(***************************************************************************)
(* Model of the peer-frontier pruning engine, src/src/net/prune.rs         *)
(* (impl PeerNetwork), and of the contract analysis store,                 *)
(* src/src/vm/checker/check_db.rs (AnalysisDatabase).                      *)
(*                                                                         *)
(* The connection table is the pair of maps self.events (NeighborKey ->    *)
(* event id) and self.peers (event id -> conversation).  A HashMap is      *)
(* modelled as the sequence of its entries in iteration order, so that     *)
(* every loop over a map is a loop over a sequence and the arbitrary       *)
(* iteration order is part of the state (events) or an input of the pass   *)
(* (the maps a pass builds).                                               *)
(***************************************************************************)
EXTENDS Integers, Sequences, FiniteSets, TLC

\* ------------------------------------------------------------ bounds

\* most connections in the table at construction
MaxPeers == 2
\* most connections in the table at construction of the wide specification
WidePeers == 3
\* soft_num_neighbors and soft_num_clients range over 0..MaxLimit
MaxLimit == 2
\* soft_max_neighbors_per_org and soft_max_clients_per_host range over 0..MaxCap
MaxCap == 1
\* a pass starts only while the telemetry counters sum to less than MaxPrunes
MaxPrunes == 2

\* ------------------------------------------------------------ values

Less == "Less"
Equal == "Equal"
Greater == "Greater"

\* get_epoch_time_secs(), fixed for the length of a pass
Now == 16

Orgs == {1, 2}
Addrs == {"a", "b"}

\* ------------------------------------------------------------ helpers

Range(s) == {s[i] : i \in DOMAIN s}

NoDup(s) == \A i, j \in DOMAIN s : s[i] = s[j] => i = j

Min(a, b) == IF a <= b THEN a ELSE b

\* all orderings of a finite set, as sequences without repetition
Orderings(S) ==
  {s \in [1..Cardinality(S) -> S] : \A i, j \in DOMAIN s : s[i] = s[j] => i = j}

\* s without its first n elements (Vec::remove(0), n times, n <= Len(s))
DropFront(s, n) == SubSeq(s, n + 1, Len(s))

\* ------------------------------------------------------------ the comparator

\* fmax!(0.0, uptime.log2().round()) as u64: round(log2(u)) = k exactly when
\* 2^(k - 1/2) < u < 2^(k + 1/2), that is 4^k < 2*u*u < 4^(k+1); log2(0) is
\* -inf and log2(1) is 0, both giving bucket 0.
RECURSIVE bucket_from(_, _)
bucket_from(u, k) == IF 2 * u * u < 4 ^ (k + 1) THEN k ELSE bucket_from(u, k + 1)

uptime_bucket(uptime) == IF uptime <= 1 THEN 0 ELSE bucket_from(uptime, 0)

\* NeighborStats::get_health_score() of a stats record
get_health_score(stats) == stats.health

compare_neighbor_uptime_health(stats1, stats2) ==
  LET uptime_bucket_1 == uptime_bucket(Now - stats1.first_contact_time)
      uptime_bucket_2 == uptime_bucket(Now - stats2.first_contact_time)
      health_1 == get_health_score(stats1)
      health_2 == get_health_score(stats2)
  IN  IF uptime_bucket_1 < uptime_bucket_2 THEN Less
      ELSE IF uptime_bucket_1 > uptime_bucket_1 THEN Greater
      ELSE IF health_1 < health_2 THEN Less
      ELSE IF health_1 > health_2 THEN Greater
      ELSE Equal

\* variant: the closure with Less and Greater exchanged (newest first)
compare_first_contact_time_reversed(stats1, stats2) ==
  IF stats1.first_contact_time < stats2.first_contact_time THEN Greater
  ELSE IF stats1.first_contact_time > stats2.first_contact_time THEN Less
  ELSE Equal

\* the closure given to sort_by in prune_frontier_inbound_ip
compare_first_contact_time(stats1, stats2) ==
  IF stats1.first_contact_time < stats2.first_contact_time THEN Less
  ELSE IF stats1.first_contact_time > stats2.first_contact_time THEN Greater
  ELSE Equal

\* ------------------------------------------------------------ slice::sort_by

\* the two closures given to sort_by, by name
ByUptimeHealth == "uptime_health"
ByFirstContact == "first_contact_time"

compare(by, stats1, stats2) ==
  IF by = ByUptimeHealth THEN compare_neighbor_uptime_health(stats1, stats2)
  ELSE compare_first_contact_time(stats1, stats2)

\* The standard library sorts a slice of at most 20 elements by inserting, from
\* the back, each element into the sorted tail behind it (insert_head): the
\* head moves right past every element that compares Less than it.
RECURSIVE insert_dest(_, _, _, _)
insert_dest(v, tmp, i, by) ==
  IF i > Len(v) THEN i - 1
  ELSE IF compare(by, v[i].stats, tmp.stats) # Less THEN i - 1
  ELSE insert_dest(v, tmp, i + 1, by)

insert_head(v, by) ==
  IF Len(v) >= 2 /\ compare(by, v[2].stats, v[1].stats) = Less
  THEN LET dest == insert_dest(v, v[1], 3, by)
       IN  [i \in 1..Len(v) |->
              IF i < dest THEN v[i + 1] ELSE IF i = dest THEN v[1] ELSE v[i]]
  ELSE v

RECURSIVE sort_from(_, _, _)
sort_from(v, i, by) ==
  IF i < 1 THEN v
  ELSE sort_from(SubSeq(v, 1, i - 1) \o insert_head(SubSeq(v, i, Len(v)), by),
                 i - 1, by)

sort_by(v, by) == IF Len(v) >= 2 THEN sort_from(v, Len(v) - 1, by) ELSE v

\* ------------------------------------------------------------ the table

\* PeerNetwork::count_outbound_conversations(&self.peers)
count_outbound_conversations(peers) ==
  Cardinality({e \in DOMAIN peers : peers[e].stats.outbound})

\* self.num_peers()
num_peers(peers) == Cardinality(DOMAIN peers)

\* Conversation::to_neighbor_key
to_neighbor_key(convo) == convo.nk

\* PeerDB::get_peer(conn, network_id, addrbytes, port) as [err, peer]: err for
\* Err(_), else peer is the Option, <<>> for None and <<org>> for a peer of
\* that organization.  db_fail is the set of keys whose lookup fails with a
\* storage error in this pass.
get_peer(peerdb, nk, db_fail) ==
  IF nk \in db_fail THEN [err |-> TRUE, peer |-> <<>>]
  ELSE IF nk \in DOMAIN peerdb THEN [err |-> FALSE, peer |-> peerdb[nk]]
  ELSE [err |-> FALSE, peer |-> <<>>]

\* variant: the loop without the preserve test of lines 88-90
org_lookups_unpreserved(events, peers, preserve) ==
  SelectSeq(events, LAMBDA en :
    /\ en.event_id \in DOMAIN peers
    /\ peers[en.event_id].stats.outbound)

\* the entries of self.events the distribution loop makes a lookup for
org_lookups(events, peers, preserve) ==
  SelectSeq(events, LAMBDA en :
    /\ en.event_id \notin preserve
    /\ en.event_id \in DOMAIN peers
    /\ peers[en.event_id].stats.outbound)

\* variant: a failed lookup is skipped like an unknown peer instead of ending
\* the loop with an error
org_neighbor_distribution_skipping_errors(events, peers, peerdb, db_fail, preserve) ==
  LET looked == org_lookups(events, peers, preserve)
      nkOf(en) == to_neighbor_key(peers[en.event_id])
      peer_opt(en) == get_peer(peerdb, nkOf(en), db_fail)
      inOrg(en, org) == peer_opt(en).peer # <<>> /\ peer_opt(en).peer[1] = org
      found == {org \in Orgs : \E i \in DOMAIN looked : inOrg(looked[i], org)}
      entry(en) == [nk |-> nkOf(en), stats |-> peers[en.event_id].stats]
      members(org) == SelectSeq(looked, LAMBDA en : inOrg(en, org))
  IN  [err |-> FALSE,
       map |-> [org \in found |->
                  [i \in 1..Len(members(org)) |-> entry(members(org)[i])]]]

\* variant: a peer the database does not know is put in organization 1
org_neighbor_distribution_defaulting(events, peers, peerdb, db_fail, preserve) ==
  LET looked == org_lookups(events, peers, preserve)
      nkOf(en) == to_neighbor_key(peers[en.event_id])
      peer_opt(en) == get_peer(peerdb, nkOf(en), db_fail)
      inOrg(en, org) == IF peer_opt(en).peer = <<>> THEN org = 1
                        ELSE peer_opt(en).peer[1] = org
      found == {org \in Orgs : \E i \in DOMAIN looked : inOrg(looked[i], org)}
      entry(en) == [nk |-> nkOf(en), stats |-> peers[en.event_id].stats]
      members(org) == SelectSeq(looked, LAMBDA en : inOrg(en, org))
  IN  IF \E i \in DOMAIN looked : peer_opt(looked[i]).err
      THEN [err |-> TRUE, map |-> <<>>]
      ELSE [err |-> FALSE,
            map |-> [org \in found |->
                       [i \in 1..Len(members(org)) |-> entry(members(org)[i])]]]

\* [err, map]: err for Err(net_error::DBError), else map is the HashMap
\* org -> Vec<(nk, stats)>, each Vec in the order self.events is iterated in
org_neighbor_distribution(events, peers, peerdb, db_fail, preserve) ==
  LET looked == org_lookups(events, peers, preserve)
      nkOf(en) == to_neighbor_key(peers[en.event_id])
      peer_opt(en) == get_peer(peerdb, nkOf(en), db_fail)
      inOrg(en, org) == peer_opt(en).peer # <<>> /\ peer_opt(en).peer[1] = org
      found == {org \in Orgs : \E i \in DOMAIN looked : inOrg(looked[i], org)}
      entry(en) == [nk |-> nkOf(en), stats |-> peers[en.event_id].stats]
      members(org) == SelectSeq(looked, LAMBDA en : inOrg(en, org))
  IN  IF \E i \in DOMAIN looked : peer_opt(looked[i]).err
      THEN [err |-> TRUE, map |-> <<>>]
      ELSE [err |-> FALSE,
            map |-> [org \in found |->
                       [i \in 1..Len(members(org)) |-> entry(members(org)[i])]]]

\* ------------------------------------------------------------ the drop sampler

\* drop_prob is the HashMap<NeighborKey, f64> as the sequence of its [nk, v]
\* entries in iteration order, with whole weights.  sum of lines 65-67, from
\* entry i on.
RECURSIVE drop_sum(_, _)
drop_sum(drop_prob, i) ==
  IF i > Len(drop_prob) THEN 0 ELSE drop_prob[i].v + drop_sum(drop_prob, i + 1)

\* The sample points: normalized_dist holds the running sums over sum, so the
\* function is constant between two neighbouring multiples of 1 / sum, and
\* point is taken at the middle of each such cell, (2 * cell + 1) / (2 * sum),
\* away from the rounding of the f64 sums.  Each cell has measure 1 / sum.
drop_cells(drop_prob) ==
  IF drop_sum(drop_prob, 1) = 0 THEN {0} ELSE 0..(drop_sum(drop_prob, 1) - 1)

\* lines 74-79 from entry i on, off being the sum of the weights before it:
\* the entry's p is (off + v) / sum, and point >= p reads
\* (2 * cell + 1) / (2 * sum) >= (off + v) / sum.  With sum = 0 every p is NaN
\* and no test holds.
RECURSIVE drop_walk(_, _, _, _)
drop_walk(drop_prob, cell, i, off) ==
  IF i > Len(drop_prob) THEN <<drop_prob[Len(drop_prob)].nk>>
  ELSE IF /\ drop_sum(drop_prob, 1) > 0
          /\ 2 * cell + 1 >= 2 * (off + drop_prob[i].v)
       THEN <<drop_prob[i].nk>>
  ELSE drop_walk(drop_prob, cell, i + 1, off + drop_prob[i].v)

\* sample_drop_probability(point, drop_prob) for a nonempty drop_prob
sample_drop_probability(cell, drop_prob) == drop_walk(drop_prob, cell, 1, 0)

\* ------------------------------------------------------------ the org sampler

RECURSIVE weight_total(_, _)
weight_total(org_weights, i) ==
  IF i > Len(org_weights) THEN 0
  ELSE org_weights[i].count + weight_total(org_weights, i + 1)

\* variant: the upper end of an entry's range taken as inclusive
RECURSIVE sample_walk_inclusive(_, _, _, _)
sample_walk_inclusive(org_weights, sample, i, offset) ==
  IF i > Len(org_weights) THEN <<>>
  ELSE IF org_weights[i].count = 0
       THEN sample_walk_inclusive(org_weights, sample, i + 1, offset)
  ELSE IF offset <= sample /\ sample <= offset + org_weights[i].count
       THEN <<org_weights[i].org>>
  ELSE sample_walk_inclusive(org_weights, sample, i + 1,
                             offset + org_weights[i].count)

\* the walk of sample_org_by_neighbor_count from entry i with the running
\* offset; <<>> stands for reaching unreachable!()
RECURSIVE sample_walk(_, _, _, _)
sample_walk(org_weights, sample, i, offset) ==
  IF i > Len(org_weights) THEN <<>>
  ELSE IF org_weights[i].count = 0
       THEN sample_walk(org_weights, sample, i + 1, offset)
  ELSE IF offset <= sample /\ sample < offset + org_weights[i].count
       THEN <<org_weights[i].org>>
  ELSE sample_walk(org_weights, sample, i + 1, offset + org_weights[i].count)

\* org_weights is the HashMap<u32, usize> as the sequence of its [org, count]
\* entries in iteration order; sample is the value rng.gen_range(0, total) drew
sample_org_by_neighbor_count(org_weights, sample) ==
  sample_walk(org_weights, sample, 1, 0)

\* the values rng.gen_range(0, total) can return
sample_draws(org_weights) == 0..(weight_total(org_weights, 1) - 1)

\* ------------------------------------------------------------ outbound pruner

Ok == "Ok"
Err == "Err"
Panic == "Panic"

\* lines 217-228: push neighbor_infos[i] for i in 0..n, leaving the loop once
\* the global target is reached
RECURSIVE hard_trim_push(_, _, _, _, _, _)
hard_trim_push(neighbor_infos, i, n, ret, num_outbound, soft_num_neighbors) ==
  IF i >= n THEN ret
  ELSE LET pushed == Append(ret, neighbor_infos[i + 1].nk)
       IN  IF num_outbound - Len(pushed) <= soft_num_neighbors THEN pushed
           ELSE hard_trim_push(neighbor_infos, i + 1, n, pushed, num_outbound,
                               soft_num_neighbors)

\* variant: the removal loop of lines 229-231 left out
hard_trim_no_removals(ret_before, ret_after) == 0

\* how many times line 230 removes the front of the organization's list
hard_trim_removals(ret_before, ret_after) == Len(ret_after)

\* lines 212-235 from the k-th organization on: [panic, map, ret].  The list
\* loses its front once per key in ret; Vec::remove(0) on an empty Vec panics.
RECURSIVE hard_trim(_, _, _, _, _, _, _)
hard_trim(org_neighbors, orgs, k, ret, num_outbound, soft_num_neighbors, soft_max_neighbors_per_org) ==
  IF k > Len(orgs) THEN [panic |-> FALSE, map |-> org_neighbors, ret |-> ret]
  ELSE
    LET neighbor_infos == org_neighbors[orgs[k]]
    IN  IF Len(neighbor_infos) > soft_max_neighbors_per_org
        THEN LET pushed == hard_trim_push(neighbor_infos, 0,
                             Len(neighbor_infos) - soft_max_neighbors_per_org,
                             ret, num_outbound, soft_num_neighbors)
                 removals == hard_trim_removals(ret, pushed)
             IN  IF removals > Len(neighbor_infos)
                 THEN [panic |-> TRUE, map |-> org_neighbors, ret |-> pushed]
                 ELSE hard_trim(
                        [org_neighbors EXCEPT
                           ![orgs[k]] = DropFront(neighbor_infos, removals)],
                        orgs, k + 1, pushed, num_outbound, soft_num_neighbors,
                        soft_max_neighbors_per_org)
        ELSE hard_trim(org_neighbors, orgs, k + 1, ret, num_outbound,
                       soft_num_neighbors, soft_max_neighbors_per_org)

\* the organizations one iteration of the sampling loop can pick: every
\* iteration order of weighted_sample and every draw; <<>> for unreachable!()
sampled_orgs(org_neighbors) ==
  LET live == {org \in DOMAIN org_neighbors : Len(org_neighbors[org]) > 0}
      weights(order) ==
        [i \in 1..Len(order) |->
           [org |-> order[i], count |-> Len(org_neighbors[order[i]])]]
  IN  UNION {{sample_org_by_neighbor_count(weights(order), sample) :
                sample \in sample_draws(weights(order))} :
             order \in Orderings(live)}

\* lines 245-272: every [status, ret] the sampling loop can end with
RECURSIVE sampling_phase(_, _, _, _)
sampling_phase(org_neighbors, ret, num_outbound, soft_num_neighbors) ==
  IF ~(num_outbound - Len(ret) > soft_num_neighbors)
  THEN {[status |-> Ok, ret |-> ret]}
  ELSE IF \A org \in DOMAIN org_neighbors : Len(org_neighbors[org]) = 0
  THEN {[status |-> Ok, ret |-> ret]}
  ELSE UNION {
         IF prune_org = <<>> \/ prune_org[1] \notin DOMAIN org_neighbors
         THEN {[status |-> Panic, ret |-> ret]}
         ELSE LET neighbor_info == org_neighbors[prune_org[1]]
              IN  IF Len(neighbor_info) = 0
                  THEN {[status |-> Panic, ret |-> ret]}
                  ELSE sampling_phase(
                         [org_neighbors EXCEPT
                            ![prune_org[1]] = DropFront(neighbor_info, 1)],
                         Append(ret, neighbor_info[1].nk),
                         num_outbound, soft_num_neighbors)
         : prune_org \in sampled_orgs(org_neighbors)}

\* the keys of org_neighbors, which line 193 collects in iteration order
org_keys(events, peers, peerdb, db_fail, preserve) ==
  DOMAIN org_neighbor_distribution(events, peers, peerdb, db_fail, preserve).map

\* Every [status, ret] prune_frontier_outbound_orgs can end with: Ok(ret),
\* Err(DBError), or a panic.  orgs is the Vec of line 193.
prune_frontier_outbound_orgs(events, peers, peerdb, soft_num_neighbors, soft_max_neighbors_per_org, db_fail, preserve, orgs) ==
  LET num_outbound == count_outbound_conversations(peers)
      dist == org_neighbor_distribution(events, peers, peerdb, db_fail, preserve)
      sorted == [org \in DOMAIN dist.map |-> sort_by(dist.map[org], ByUptimeHealth)]
      trimmed == hard_trim(sorted, orgs, 1, <<>>, num_outbound,
                           soft_num_neighbors, soft_max_neighbors_per_org)
  IN  IF num_outbound <= soft_num_neighbors THEN {[status |-> Ok, ret |-> <<>>]}
      ELSE IF dist.err THEN {[status |-> Err, ret |-> <<>>]}
      ELSE IF trimmed.panic THEN {[status |-> Panic, ret |-> trimmed.ret]}
      ELSE IF num_outbound - Len(trimmed.ret) <= soft_num_neighbors
      THEN {[status |-> Ok, ret |-> trimmed.ret]}
      ELSE sampling_phase(trimmed.map, trimmed.ret, num_outbound,
                          soft_num_neighbors)

\* ------------------------------------------------------------ inbound pruner

\* variant: the loop without the direction test of line 294
inbound_candidates_any_direction(events, peers, preserve) ==
  SelectSeq(events, LAMBDA en :
    /\ en.event_id \notin preserve
    /\ en.event_id \in DOMAIN peers)

\* the entries of self.events that lines 288-306 put in ip_neighbor
inbound_candidates(events, peers, preserve) ==
  SelectSeq(events, LAMBDA en :
    /\ en.event_id \notin preserve
    /\ en.event_id \in DOMAIN peers
    /\ ~peers[en.event_id].stats.outbound)

\* ip_neighbor: addrbytes -> Vec<(event_id, nk, stats)>, sorted by
\* first_contact_time
ip_neighbor_sorted(events, peers, preserve) ==
  LET cands == inbound_candidates(events, peers, preserve)
      addrs == {cands[i].nk.addrbytes : i \in DOMAIN cands}
      group(addrbytes) == SelectSeq(cands, LAMBDA en : en.nk.addrbytes = addrbytes)
      entry(en) == [event_id |-> en.event_id, nk |-> en.nk,
                    stats |-> peers[en.event_id].stats]
  IN  [addrbytes \in addrs |->
         sort_by([i \in 1..Len(group(addrbytes)) |-> entry(group(addrbytes)[i])],
                 ByFirstContact)]

\* variant: the loop of line 327 starting one past soft_max_clients_per_host
RECURSIVE inbound_to_remove_late(_, _, _, _)
inbound_to_remove_late(ip_neighbor, addrs, k, soft_max_clients_per_host) ==
  IF k > Len(addrs) THEN <<>>
  ELSE LET neighbor_info == ip_neighbor[addrs[k]]
           excess == IF Len(neighbor_info) > soft_max_clients_per_host + 1
                     THEN [i \in 1..(Len(neighbor_info) - soft_max_clients_per_host - 1)
                             |-> neighbor_info[soft_max_clients_per_host + 1 + i].nk]
                     ELSE <<>>
       IN  excess \o inbound_to_remove_late(ip_neighbor, addrs, k + 1,
                                            soft_max_clients_per_host)

\* lines 324-331 from the k-th address of the map on
RECURSIVE inbound_to_remove(_, _, _, _)
inbound_to_remove(ip_neighbor, addrs, k, soft_max_clients_per_host) ==
  IF k > Len(addrs) THEN <<>>
  ELSE LET neighbor_info == ip_neighbor[addrs[k]]
           excess == IF Len(neighbor_info) > soft_max_clients_per_host
                     THEN [i \in 1..(Len(neighbor_info) - soft_max_clients_per_host)
                             |-> neighbor_info[soft_max_clients_per_host + i].nk]
                     ELSE <<>>
       IN  excess \o inbound_to_remove(ip_neighbor, addrs, k + 1,
                                       soft_max_clients_per_host)

ip_keys(events, peers, preserve) == DOMAIN ip_neighbor_sorted(events, peers, preserve)

\* variant: the pruner without the fast path of lines 282-285
prune_frontier_inbound_ip_always(events, peers, soft_num_clients, soft_max_clients_per_host, preserve, addrs) ==
  inbound_to_remove(ip_neighbor_sorted(events, peers, preserve), addrs, 1,
                    soft_max_clients_per_host)

\* addrs is the order ip_neighbor is iterated in at line 324
prune_frontier_inbound_ip(events, peers, soft_num_clients, soft_max_clients_per_host, preserve, addrs) ==
  LET num_inbound == num_peers(peers) - count_outbound_conversations(peers)
  IN  IF num_inbound <= soft_num_clients THEN <<>>
      ELSE inbound_to_remove(ip_neighbor_sorted(events, peers, preserve), addrs, 1,
                             soft_max_clients_per_host)

\* ------------------------------------------------------------ the orchestrator

\* self.deregister_neighbor(nk): the connection leaves self.events and
\* self.peers, unless the disconnect fails (nk in dereg_fail) and leaves it
deregister_neighbor(table, nk, dereg_fail) ==
  IF nk \in dereg_fail THEN table
  ELSE LET gone == {table.events[i].event_id :
                      i \in {j \in DOMAIN table.events : table.events[j].nk = nk}}
       IN  [events |-> SelectSeq(table.events, LAMBDA en : en.nk # nk),
            peers |-> [e \in DOMAIN table.peers \ gone |-> table.peers[e]]]

\* variant: the counter is set to 1 whether or not the key has an entry
count_prune_reset(counts, prune) ==
  [nk \in DOMAIN counts \cup {prune} |-> IF nk = prune THEN 1 ELSE counts[nk]]

\* lines 370-376 and 389-395: insert at 1 if absent, else add 1
count_prune(counts, prune) ==
  IF prune \notin DOMAIN counts
  THEN [nk \in DOMAIN counts \cup {prune} |-> IF nk = prune THEN 1 ELSE counts[nk]]
  ELSE [counts EXCEPT ![prune] = counts[prune] + 1]

\* the sum of the counters of one telemetry map
RECURSIVE total_prunes(_)
total_prunes(counts) ==
  IF DOMAIN counts = {} THEN 0
  ELSE LET nk == CHOOSE k \in DOMAIN counts : TRUE
       IN  counts[nk] + total_prunes([k \in DOMAIN counts \ {nk} |-> counts[k]])

\* variant: a key is counted only when its disconnect succeeds
RECURSIVE disconnect_all_counting_successes(_, _, _, _, _)
disconnect_all_counting_successes(table, counts, pruned, k, dereg_fail) ==
  IF k > Len(pruned)
  THEN [table |-> table, counts |-> counts, attempts |-> <<>>]
  ELSE LET rest == disconnect_all_counting_successes(
                     deregister_neighbor(table, pruned[k], dereg_fail),
                     IF pruned[k] \in dereg_fail THEN counts
                     ELSE count_prune(counts, pruned[k]),
                     pruned, k + 1, dereg_fail)
       IN  [table |-> rest.table, counts |-> rest.counts,
            attempts |-> <<pruned[k]>> \o rest.attempts]

\* the loops of lines 366-377 and 385-396 from the k-th pruned key on;
\* attempts lists the keys deregister_neighbor is called with, in order
RECURSIVE disconnect_all(_, _, _, _, _)
disconnect_all(table, counts, pruned, k, dereg_fail) ==
  IF k > Len(pruned)
  THEN [table |-> table, counts |-> counts, attempts |-> <<>>]
  ELSE LET rest == disconnect_all(
                     deregister_neighbor(table, pruned[k], dereg_fail),
                     count_prune(counts, pruned[k]), pruned, k + 1, dereg_fail)
       IN  [table |-> rest.table, counts |-> rest.counts,
            attempts |-> <<pruned[k]>> \o rest.attempts]

\* ------------------------------------------------------------ state

VARIABLES
  events,                      \* self.events, in iteration order
  peers,                       \* self.peers
  peerdb,                      \* the peer database: key -> Option of org
  soft_num_neighbors,
  soft_max_neighbors_per_org,
  soft_num_clients,
  soft_max_clients_per_host,
  prune_inbound_counts,
  prune_outbound_counts,
  crashed,                     \* a panic has ended the process
  last,                        \* what the last prune_frontier call saw and did
  call,                        \* a call of one of the associated functions
  conn,                        \* type_analysis_table as the connection sees it
  savepoint                    \* the open AnalysisDatabase's savepoint, if any

vars == <<events, peers, peerdb, soft_num_neighbors, soft_max_neighbors_per_org,
          soft_num_clients, soft_max_clients_per_host, prune_inbound_counts,
          prune_outbound_counts, crashed, last, call, conn, savepoint>>

\* the variables of the analysis store
analysis_vars == <<conn, savepoint>>

\* the analysis store as initialize leaves a new database (lines 20-34): the
\* table exists and has no row, and no savepoint is open
NoDatabase == conn = <<>> /\ savepoint = <<>>

\* first_contact_time values: with Now = 16 an uptime of 8 s (bucket 3) and of
\* 2 s (bucket 1)
Times == {8, 14}

\* What one connection of the table at construction can be: inbound from one
\* of two addresses, or outbound to a peer the database places in one of two
\* organizations or does not know.  The outbound stats pair an old unhealthy
\* peer with a young healthy one.
Convos ==
  [addrbytes : Addrs, outbound : {FALSE}, first_contact_time : Times,
   health : {0}, peer : {<<>>}]
  \cup
  [addrbytes : {"a"}, outbound : {TRUE}, first_contact_time : {8},
   health : {0}, peer : {<<>>} \cup {<<org>> : org \in Orgs}]
  \cup
  [addrbytes : {"a"}, outbound : {TRUE}, first_contact_time : {14},
   health : {1}, peer : {<<org>> : org \in Orgs}]

\* The lists a pass builds are subsequences of self.events holding one
\* direction and one address or organization each, so the relative order of
\* connections of different groups reaches nothing: the table at construction
\* lays the groups out in this order and leaves the order inside a group free.
\* The code tells neither the two addresses nor the two organizations apart
\* (the order their groups are visited in is an input of the pass), so of two
\* tables that differ by exchanging them one is enough: address "a" holds at
\* least as many connections as "b", organization 1 at least as many as 2.
\* A soft limit at or above the number of connections of its direction never
\* lets a pass past its fast path or its per-group test, whatever its value:
\* each limit is drawn up to that number.
group_rank(c) ==
  IF ~c.outbound THEN (IF c.addrbytes = "a" THEN 1 ELSE 2)
  ELSE IF c.peer = <<>> THEN 3
  ELSE 3 + c.peer[1]

key_of(c, i) == [addrbytes |-> c.addrbytes, port |-> i]

\* the record of a prune_frontier call: its argument, what it saw and returned
NoPass ==
  [ran |-> FALSE, preserve |-> {}, events |-> <<>>, peers |-> <<>>,
   inbound_counts |-> <<>>, outbound_counts |-> <<>>,
   pruned_by_ip |-> <<>>, dereg_fail |-> {}, db_fail |-> {},
   org_events |-> <<>>, org_peers |-> <<>>, org_status |-> Ok,
   pruned_by_org |-> <<>>, attempts |-> <<>>]

group_size(cs, rank) == Cardinality({i \in DOMAIN cs : group_rank(cs[i]) = rank})

\* the PeerNetwork after construction, with at most max_peers connections,
\* each one of convos
ConstructFrom(max_peers, convos) ==
  /\ \E n \in 0..max_peers : \E cs \in [1..n -> convos] :
       /\ \A i \in 1..(n - 1) : group_rank(cs[i]) <= group_rank(cs[i + 1])
       /\ group_size(cs, 1) >= group_size(cs, 2)
       /\ group_size(cs, 4) >= group_size(cs, 5)
       /\ LET num_outbound == Cardinality({i \in 1..n : cs[i].outbound})
          IN  /\ soft_num_neighbors \in 0..Min(MaxLimit, num_outbound)
              /\ soft_max_neighbors_per_org \in 0..Min(MaxCap, num_outbound)
              /\ soft_num_clients \in 0..Min(MaxLimit, n - num_outbound)
              /\ soft_max_clients_per_host \in 0..Min(MaxCap, n - num_outbound)
       /\ events = [i \in 1..n |-> [nk |-> key_of(cs[i], i), event_id |-> max_peers + i]]
       /\ peers = [e \in {max_peers + i : i \in 1..n} |->
                     [nk |-> key_of(cs[e - max_peers], e - max_peers),
                      stats |-> [outbound |-> cs[e - max_peers].outbound,
                                 first_contact_time |-> cs[e - max_peers].first_contact_time,
                                 health |-> cs[e - max_peers].health]]]
       /\ peerdb = [nk \in {key_of(cs[i], i) : i \in 1..n} |-> cs[nk.port].peer]
  /\ prune_inbound_counts = <<>>
  /\ prune_outbound_counts = <<>>
  /\ crashed = FALSE
  /\ last = NoPass

Construct(max_peers) == ConstructFrom(max_peers, Convos)

\* no associated function is being called
NoCall == [op |-> "none", done |-> FALSE]

Init == Construct(MaxPeers) /\ call = NoCall /\ NoDatabase

InitWide == Construct(WidePeers) /\ call = NoCall /\ NoDatabase

event_ids(evs) == {evs[i].event_id : i \in DOMAIN evs}

\* the keys of the outbound connections of the table
outbound_keys(evs, prs) ==
  {to_neighbor_key(prs[e]) : e \in {x \in DOMAIN prs : prs[x].stats.outbound}}

\* The lookups that fail in a pass.  The first failing lookup ends the
\* distribution loop (line 104), so a pass depends on the failing keys only by
\* whether a lookup it makes is among them: no lookup failing, and every
\* lookup failing, are all the cases.
db_failures(evs, prs) == {{}, outbound_keys(evs, prs)}

\* One call of prune_frontier(local_peer, preserve), lines 359-414.  Its inputs:
\* the preserve set, the iteration orders of the maps the pass builds (addrs,
\* orgs), the peer database lookups that fail (db_fail), the draws of the
\* sampler (in out) and the disconnects that fail (fail_ip, fail_org).
PruneFrontier ==
  /\ ~crashed
  /\ ~last.ran
  /\ total_prunes(prune_inbound_counts) + total_prunes(prune_outbound_counts)
       < MaxPrunes
  /\ \E preserve \in SUBSET event_ids(events) :
     \E addrs \in Orderings(ip_keys(events, peers, preserve)) :
       \E pruned_by_ip \in {prune_frontier_inbound_ip(events, peers,
                             soft_num_clients, soft_max_clients_per_host,
                             preserve, addrs)} :
       \E fail_ip \in SUBSET Range(pruned_by_ip) :
         \E after_ip \in {disconnect_all([events |-> events, peers |-> peers],
                           prune_inbound_counts, pruned_by_ip, 1, fail_ip)} :
         \E ev1 \in {after_ip.table.events} :
         \E pr1 \in {after_ip.table.peers} :
         \E db_fail \in db_failures(ev1, pr1) :
         \E orgs \in Orderings(org_keys(ev1, pr1, peerdb, db_fail, preserve)) :
         \E out \in prune_frontier_outbound_orgs(ev1, pr1, peerdb,
                      soft_num_neighbors, soft_max_neighbors_per_org, db_fail,
                      preserve, orgs) :
           \* line 379: unwrap_or(vec![])
           \E pruned_by_org \in {IF out.status = Ok THEN out.ret ELSE <<>>} :
           \E fail_org \in SUBSET Range(pruned_by_org) :
             \E after_org \in {disconnect_all(after_ip.table, prune_outbound_counts,
                                pruned_by_org, 1, fail_org)} :
             /\ prune_inbound_counts' = after_ip.counts
             /\ IF out.status = Panic
                THEN /\ crashed' = TRUE
                     /\ events' = ev1
                     /\ peers' = pr1
                     /\ UNCHANGED prune_outbound_counts
                ELSE /\ crashed' = FALSE
                     /\ events' = after_org.table.events
                     /\ peers' = after_org.table.peers
                     /\ prune_outbound_counts' = after_org.counts
             /\ last' = [ran |-> TRUE, preserve |-> preserve,
                         events |-> events, peers |-> peers,
                         inbound_counts |-> prune_inbound_counts,
                         outbound_counts |-> prune_outbound_counts,
                         pruned_by_ip |-> pruned_by_ip,
                         dereg_fail |-> fail_ip \cup fail_org,
                         db_fail |-> db_fail,
                         org_events |-> ev1, org_peers |-> pr1,
                         org_status |-> out.status,
                         pruned_by_org |-> pruned_by_org,
                         attempts |-> after_ip.attempts \o after_org.attempts]
             /\ UNCHANGED <<peerdb, soft_num_neighbors, soft_max_neighbors_per_org,
                            soft_num_clients, soft_max_clients_per_host, call,
                            conn, savepoint>>

\* prune_frontier returns to the maintenance loop: its argument and locals are gone
Return ==
  /\ last.ran
  /\ ~crashed
  /\ last' = NoPass
  /\ UNCHANGED <<events, peers, peerdb, soft_num_neighbors,
                 soft_max_neighbors_per_org, soft_num_clients,
                 soft_max_clients_per_host, prune_inbound_counts,
                 prune_outbound_counts, crashed, call, conn, savepoint>>

Next == PruneFrontier \/ Return

Spec == Init /\ [][Next]_vars

\* the same machine from tables of up to WidePeers connections
SpecWide == InitWide /\ [][Next]_vars

\* most connections in a table of outbound connections only
OutboundPeers == 4

\* outbound connections to peers of equal stats that the database knows
OutboundConvos ==
  {c \in Convos : c.outbound /\ c.peer # <<>> /\ c.first_contact_time = 8}

InitOutbound ==
  ConstructFrom(OutboundPeers, OutboundConvos) /\ call = NoCall /\ NoDatabase

\* the same machine from tables of up to OutboundPeers outbound connections
SpecOutbound == InitOutbound /\ [][Next]_vars

\* ------------------------------------------------------------ the comparator
\* called on its own

\* the variables of the PeerNetwork, which an associated function (no self)
\* does not reach
network_vars == <<events, peers, peerdb, soft_num_neighbors,
                  soft_max_neighbors_per_org, soft_num_clients,
                  soft_max_clients_per_host, prune_inbound_counts,
                  prune_outbound_counts, crashed, last>>

\* health scores range over 0..MaxHealth
MaxHealth == 2

\* first_contact_time values: with Now = 16, uptimes of 8, 4, 3, 2 and 0 s, in
\* buckets 3, 2, 2, 1 and 0
CompareTimes == {8, 12, 13, 14, 16}

StatsDomain ==
  [outbound : {TRUE}, first_contact_time : CompareTimes, health : 0..MaxHealth]

\* three stats records to be compared pairwise
InitCompare ==
  /\ Construct(0)
  /\ NoDatabase
  /\ call \in [op : {"compare"}, done : {FALSE},
               a : StatsDomain, b : StatsDomain, c : StatsDomain]

\* compare_neighbor_uptime_health on the pairs of the three records
CompareStats ==
  /\ call.op = "compare"
  /\ ~call.done
  /\ call' = [op |-> "compare", done |-> TRUE,
              a |-> call.a, b |-> call.b, c |-> call.c,
              ab |-> compare_neighbor_uptime_health(call.a, call.b),
              ba |-> compare_neighbor_uptime_health(call.b, call.a),
              bc |-> compare_neighbor_uptime_health(call.b, call.c),
              ac |-> compare_neighbor_uptime_health(call.a, call.c)]
  /\ UNCHANGED <<network_vars, analysis_vars>>

SpecCompare == InitCompare /\ [][CompareStats]_vars

\* ------------------------------------------------------------ the org sampler
\* called on its own

\* the weights of a mapping range over 0..MaxWeight
MaxWeight == 3

\* the keys of a weight mapping
SampleOrgs == {1, 2, 3}

\* every HashMap<u32, usize> over the keys, as the sequence of its [org, count]
\* entries in every iteration order
WeightMaps ==
  UNION {UNION {{[i \in 1..Len(order) |-> [org |-> order[i], count |-> counts[i]]] :
                   counts \in [1..Len(order) -> 0..MaxWeight]} :
                order \in Orderings(S)} :
         S \in SUBSET SampleOrgs}

InitSampleOrg ==
  /\ Construct(0)
  /\ NoDatabase
  /\ call \in [op : {"sample_org"}, done : {FALSE}, org_weights : WeightMaps]

\* sample_org_by_neighbor_count(org_weights) with every value the generator
\* can draw; rng.gen_range(0, 0) panics
SampleOrg ==
  /\ call.op = "sample_org"
  /\ ~call.done
  /\ IF sample_draws(call.org_weights) = {}
     THEN call' = [op |-> "sample_org", done |-> TRUE,
                   org_weights |-> call.org_weights,
                   panicked |-> TRUE, sample |-> 0, result |-> <<>>]
     ELSE \E sample \in sample_draws(call.org_weights) :
            call' = [op |-> "sample_org", done |-> TRUE,
                     org_weights |-> call.org_weights,
                     panicked |-> FALSE, sample |-> sample,
                     result |-> sample_org_by_neighbor_count(call.org_weights,
                                                             sample)]
  /\ UNCHANGED <<network_vars, analysis_vars>>

SpecSampleOrg == InitSampleOrg /\ [][SampleOrg]_vars

\* ------------------------------------------------------------ the drop sampler
\* called on its own

\* the weights of a drop_prob mapping range over 0..MaxDropWeight
MaxDropWeight == 2

\* the keys of a drop_prob mapping
DropKeys == {[addrbytes |-> "a", port |-> port] : port \in 1..3}

\* every HashMap<NeighborKey, f64> over the keys with whole weights, as the
\* sequence of its entries in every iteration order
DropMaps ==
  UNION {UNION {{[i \in 1..Len(order) |-> [nk |-> order[i], v |-> weights[i]]] :
                   weights \in [1..Len(order) -> 0..MaxDropWeight]} :
                order \in Orderings(S)} :
         S \in SUBSET DropKeys}

InitSampleDrop ==
  /\ Construct(0)
  /\ NoDatabase
  /\ call \in [op : {"sample_drop"}, done : {FALSE}, drop_prob : DropMaps]

\* sample_drop_probability(point, drop_prob) with point in every cell; on an
\* empty mapping line 79 indexes normalized_dist[0 - 1] and panics
SampleDrop ==
  /\ call.op = "sample_drop"
  /\ ~call.done
  /\ IF call.drop_prob = <<>>
     THEN call' = [op |-> "sample_drop", done |-> TRUE,
                   drop_prob |-> call.drop_prob,
                   panicked |-> TRUE, cell |-> 0, result |-> <<>>]
     ELSE \E cell \in drop_cells(call.drop_prob) :
            call' = [op |-> "sample_drop", done |-> TRUE,
                     drop_prob |-> call.drop_prob,
                     panicked |-> FALSE, cell |-> cell,
                     result |-> sample_drop_probability(cell, call.drop_prob)]
  /\ UNCHANGED <<network_vars, analysis_vars>>

SpecSampleDrop == InitSampleDrop /\ [][SampleDrop]_vars

\* ------------------------------------------------------------ the outbound
\* pruner, one loop iteration per step

\* the call before its first statement
OutboundCall ==
  [op |-> "outbound_orgs", pc |-> "entry", status |-> Ok,
   preserve |-> {}, db_fail |-> {}, orgs |-> <<>>,
   org_neighbors |-> <<>>, ret |-> <<>>, num_outbound |-> 0,
   candidates |-> 0, iterations |-> 0]

\* most connections in the table of a call followed step by step
StepPeers == 3

\* prune_frontier_outbound_orgs about to run on a table of outbound connections
InitOutboundSteps ==
  /\ ConstructFrom(StepPeers, OutboundConvos)
  /\ call = OutboundCall
  /\ NoDatabase

\* the members left in the organizations' lists
members_left(org_neighbors) ==
  LET orgs == CHOOSE order \in Orderings(DOMAIN org_neighbors) : TRUE
  IN  weight_total([i \in 1..Len(orgs) |->
                      [org |-> orgs[i], count |-> Len(org_neighbors[orgs[i]])]], 1)

\* lines 185-243: up to the sampling loop.  The call returns early (lines 188,
\* 191, 240), panics in the hard trim (line 230), or reaches the loop.
OutboundEntry ==
  /\ call.op = "outbound_orgs"
  /\ call.pc = "entry"
  /\ \E preserve \in SUBSET event_ids(events) :
     \E db_fail \in db_failures(events, peers) :
     \E orgs \in Orderings(org_keys(events, peers, peerdb, db_fail, preserve)) :
     \E num_outbound \in {count_outbound_conversations(peers)} :
     \E dist \in {org_neighbor_distribution(events, peers, peerdb, db_fail,
                                            preserve)} :
     \E sorted \in {[org \in DOMAIN dist.map |->
                       sort_by(dist.map[org], ByUptimeHealth)]} :
     \E trimmed \in {hard_trim(sorted, orgs, 1, <<>>, num_outbound,
                               soft_num_neighbors, soft_max_neighbors_per_org)} :
     \E entered \in {[call EXCEPT !.preserve = preserve, !.db_fail = db_fail,
                                  !.orgs = orgs,
                                  !.num_outbound = num_outbound]} :
       call' =
         IF num_outbound <= soft_num_neighbors
         THEN [entered EXCEPT !.pc = "returned"]
         ELSE IF dist.err
         THEN [entered EXCEPT !.pc = "returned", !.status = Err]
         ELSE IF trimmed.panic
         THEN [entered EXCEPT !.pc = "panicked", !.status = Panic,
                              !.ret = trimmed.ret]
         ELSE IF num_outbound - Len(trimmed.ret) <= soft_num_neighbors
         THEN [entered EXCEPT !.pc = "returned", !.ret = trimmed.ret]
         ELSE [entered EXCEPT !.pc = "loop", !.ret = trimmed.ret,
                              !.org_neighbors = trimmed.map,
                              !.candidates = members_left(trimmed.map)]
  /\ UNCHANGED <<network_vars, analysis_vars>>

\* lines 245-271: one iteration of the sampling loop that does not break
SampleIteration ==
  /\ call.op = "outbound_orgs"
  /\ call.pc = "loop"
  /\ call.num_outbound - Len(call.ret) > soft_num_neighbors
  /\ \E org \in DOMAIN call.org_neighbors : Len(call.org_neighbors[org]) > 0
  /\ \E prune_org \in sampled_orgs(call.org_neighbors) :
       call' =
         IF prune_org = <<>> \/ prune_org[1] \notin DOMAIN call.org_neighbors
         THEN [call EXCEPT !.pc = "panicked", !.status = Panic]
         ELSE IF Len(call.org_neighbors[prune_org[1]]) = 0
         THEN [call EXCEPT !.pc = "panicked", !.status = Panic]
         ELSE [call EXCEPT
                 !.org_neighbors[prune_org[1]] = DropFront(@, 1),
                 !.ret = Append(@, call.org_neighbors[prune_org[1]][1].nk),
                 !.iterations = @ + 1]
  /\ UNCHANGED <<network_vars, analysis_vars>>

\* the loop left at line 245 (target reached) or line 254 (no organization
\* has members), then lines 274-275
SampleLoopExit ==
  /\ call.op = "outbound_orgs"
  /\ call.pc = "loop"
  /\ \/ ~(call.num_outbound - Len(call.ret) > soft_num_neighbors)
     \/ \A org \in DOMAIN call.org_neighbors : Len(call.org_neighbors[org]) = 0
  /\ call' = [call EXCEPT !.pc = "returned"]
  /\ UNCHANGED <<network_vars, analysis_vars>>

NextOutboundSteps == OutboundEntry \/ SampleIteration \/ SampleLoopExit

\* the function body runs on one thread without waiting: a statement that can
\* run does run
SpecOutboundSteps ==
  InitOutboundSteps /\ [][NextOutboundSteps]_vars /\ WF_vars(NextOutboundSteps)

\* ------------------------------------------------------------ the analysis
\* store, src/src/vm/checker/check_db.rs

\* contract names are 1..MaxContracts
MaxContracts == 2

ContractNames == 1..MaxContracts

FunctionNames == {"f"}

MapNames == {"m"}

FunctionTypes == {"fixed"}

\* a map's (key type, value type)
MapTypes == {<<"int", "bool">>}

\* every function from a subset of keys to values
PartialMaps(keys, values) == UNION {[S -> values] : S \in SUBSET keys}

\* what a ContractAnalysis holds for the two lookups of lines 118 and 127
ContractAnalyses ==
  [public_function_types : PartialMaps(FunctionNames, FunctionTypes),
   map_types : PartialMaps(MapNames, MapTypes)]

\* a mapping as the list of its <<key, value>> entries
entries_of_map(f) ==
  LET keys == CHOOSE order \in Orderings(DOMAIN f) : TRUE
  IN  [i \in 1..Len(keys) |-> <<keys[i], f[keys[i]]>>]

\* the mapping a list of <<key, value>> entries stands for
map_of_entries(es) ==
  [k \in {es[i][1] : i \in DOMAIN es} |->
     (CHOOSE e \in Range(es) : e[1] = k)[2]]

\* ContractAnalysis::serialize: the text stored in the analysis column
serialize(contract) ==
  <<entries_of_map(contract.public_function_types),
    entries_of_map(contract.map_types)>>

\* ContractAnalysis::deserialize
deserialize(text) ==
  [public_function_types |-> map_of_entries(text[1]),
   map_types |-> map_of_entries(text[2])]

\* ContractAnalysis::get_public_function_type: <<>> for None
contract_get_public_function_type(contract, function_name) ==
  IF function_name \in DOMAIN contract.public_function_types
  THEN <<contract.public_function_types[function_name]>> ELSE <<>>

\* ContractAnalysis::get_map_type: <<>> for None
contract_get_map_type(contract, map_name) ==
  IF map_name \in DOMAIN contract.map_types
  THEN <<contract.map_types[map_name]>> ELSE <<>>

\* Ok(value) and Err(CheckError::new(err))
CheckOk(value) == [status |-> Ok, value |-> value]
CheckErr(err) == [status |-> Err, value |-> err]

\* the contract names of the table's rows
names_stored(table) == {table[i].contract_name : i \in DOMAIN table}

\* lines 93-101 with the SELECT of line 105: the analysis column of the first
\* row of the name, <<>> for no row (optional())
query_row(table, contract_name) ==
  LET rows == SelectSeq(table, LAMBDA row : row.contract_name = contract_name)
  IN  IF rows = <<>> THEN <<>> ELSE <<rows[1].analysis>>

\* lines 103-112: <<>> for None
load_contract(table, contract_name) ==
  LET result == query_row(table, contract_name)
  IN  IF result = <<>> THEN <<>> ELSE <<deserialize(result[1])>>

\* lines 85-91 with the INSERT of line 137: [panic, table].  contract_name is
\* UNIQUE (line 26): a second row of a name is an SQL failure, which expect
\* turns into a panic; contract_identifier is AUTOINCREMENT (line 25).
execute(table, contract_name, analysis) ==
  IF contract_name \in names_stored(table)
  THEN [panic |-> TRUE, table |-> table]
  ELSE [panic |-> FALSE,
        table |-> Append(table, [contract_identifier |-> Len(table) + 1,
                                 contract_name |-> contract_name,
                                 analysis |-> analysis])]

\* variant: the INSERT run without the test of lines 133-135
insert_contract_unchecked(table, contract_name, contract) ==
  LET done == execute(table, contract_name, serialize(contract))
  IN  IF done.panic
      THEN [table |-> table, result |-> [status |-> Panic, value |-> <<>>]]
      ELSE [table |-> done.table, result |-> CheckOk(<<>>)]

\* lines 132-140: [table, result]
insert_contract(table, contract_name, contract) ==
  IF load_contract(table, contract_name) # <<>>
  THEN [table |-> table,
        result |-> CheckErr(<<"ContractAlreadyExists", contract_name>>)]
  ELSE LET done == execute(table, contract_name, serialize(contract))
       IN  IF done.panic
           THEN [table |-> table, result |-> [status |-> Panic, value |-> <<>>]]
           ELSE [table |-> done.table, result |-> CheckOk(<<>>)]

\* lines 114-122
get_public_function_type(table, contract_name, function_name) ==
  LET contract == load_contract(table, contract_name)
  IN  IF contract = <<>>
      THEN CheckErr(<<"NoSuchContract", contract_name>>)
      ELSE LET type == contract_get_public_function_type(contract[1],
                                                         function_name)
           IN  IF type = <<>>
               THEN CheckErr(<<"NoSuchPublicFunction", contract_name,
                               function_name>>)
               ELSE CheckOk(type[1])

\* lines 124-130
get_map_type(table, contract_name, map_name) ==
  LET contract == load_contract(table, contract_name)
  IN  IF contract = <<>>
      THEN CheckErr(<<"NoSuchContract", contract_name>>)
      ELSE LET map_type == contract_get_map_type(contract[1], map_name)
           IN  IF map_type = <<>>
               THEN CheckErr(<<"NoSuchMap", map_name>>)
               ELSE CheckOk(map_type[1])

\* a call on the analysis store: the table it found, its result, and the
\* names inserted through the open AnalysisDatabase since its last roll_back
StoreCall(op, contract_name, contract, before, result, inserted) ==
  [op |-> op, contract_name |-> contract_name, contract |-> contract,
   before |-> before, result |-> result, inserted |-> inserted]

inserted_so_far == IF call.op = "none" THEN <<>> ELSE call.inserted

InitAnalysis ==
  /\ Construct(0)
  /\ call = NoCall
  /\ NoDatabase

\* lines 62-65; the AnalysisDatabase borrows the connection mutably, so only
\* one is open at a time
BeginSavePoint ==
  /\ ~crashed
  /\ savepoint = <<>>
  /\ savepoint' = <<conn>>
  /\ call' = StoreCall("begin_save_point", 0, <<>>, conn, CheckOk(<<>>), <<>>)
  /\ UNCHANGED <<network_vars, conn>>

\* lines 75-78: the table is again as it was when the savepoint began, and
\* the savepoint stays open
RollBack ==
  /\ ~crashed
  /\ savepoint # <<>>
  /\ conn' = savepoint[1]
  /\ call' = StoreCall("roll_back", 0, <<>>, conn, CheckOk(<<>>), <<>>)
  /\ UNCHANGED <<network_vars, savepoint>>

\* lines 80-83: commit takes self, which ends the AnalysisDatabase
Commit ==
  /\ ~crashed
  /\ savepoint # <<>>
  /\ savepoint' = <<>>
  /\ call' = StoreCall("commit", 0, <<>>, conn, CheckOk(<<>>), <<>>)
  /\ UNCHANGED <<network_vars, conn>>

InsertContract ==
  /\ ~crashed
  /\ savepoint # <<>>
  /\ \E contract_name \in ContractNames, contract \in ContractAnalyses :
     \E done \in {insert_contract(conn, contract_name, contract)} :
       /\ conn' = done.table
       /\ crashed' = (done.result.status = Panic)
       /\ call' = StoreCall("insert_contract", contract_name, <<contract>>,
                    conn, done.result,
                    IF done.result.status = Ok
                    THEN Append(inserted_so_far, contract_name)
                    ELSE inserted_so_far)
  /\ UNCHANGED <<events, peers, peerdb, soft_num_neighbors,
                 soft_max_neighbors_per_org, soft_num_clients,
                 soft_max_clients_per_host, prune_inbound_counts,
                 prune_outbound_counts, last, savepoint>>

GetPublicFunctionType ==
  /\ ~crashed
  /\ savepoint # <<>>
  /\ \E contract_name \in ContractNames, function_name \in FunctionNames :
       call' = StoreCall("get_public_function_type", contract_name, <<>>, conn,
                 get_public_function_type(conn, contract_name, function_name),
                 inserted_so_far)
  /\ UNCHANGED <<network_vars, analysis_vars>>

GetMapType ==
  /\ ~crashed
  /\ savepoint # <<>>
  /\ \E contract_name \in ContractNames, map_name \in MapNames :
       call' = StoreCall("get_map_type", contract_name, <<>>, conn,
                 get_map_type(conn, contract_name, map_name),
                 inserted_so_far)
  /\ UNCHANGED <<network_vars, analysis_vars>>

NextAnalysis ==
  \/ BeginSavePoint
  \/ RollBack
  \/ Commit
  \/ InsertContract
  \/ GetPublicFunctionType
  \/ GetMapType

SpecAnalysis == InitAnalysis /\ [][NextAnalysis]_vars

\* ------------------------------------------------------------ observations

\* the counter of nk in a telemetry map, 0 when the map has no entry for it
count_of(counts, nk) == IF nk \in DOMAIN counts THEN counts[nk] ELSE 0

\* the entries of an events map whose connection has the given direction
entries_of(evs, prs, outbound) ==
  {en \in Range(evs) : en.event_id \in DOMAIN prs
                        /\ prs[en.event_id].stats.outbound = outbound}

\* inbound and outbound connection counts at the entry of the last pass
entry_num_outbound == count_outbound_conversations(last.peers)
entry_num_inbound == num_peers(last.peers) - entry_num_outbound

\* the non-preserved inbound connections of an address at entry, and now
entry_host_group(addrbytes) ==
  {en \in entries_of(last.events, last.peers, FALSE) :
     en.nk.addrbytes = addrbytes /\ en.event_id \notin last.preserve}

host_now(addrbytes) ==
  {en \in entries_of(events, peers, FALSE) : en.nk.addrbytes = addrbytes}

\* the non-preserved outbound connections the outbound pruner of the last pass
\* had before it, and those of them the peer database resolves
org_candidates ==
  {en \in entries_of(last.org_events, last.org_peers, TRUE) :
     en.event_id \notin last.preserve}

resolves(nk) == get_peer(peerdb, nk, {}).peer # <<>>

\* ------------------------------------------------------------ claims

\* C1: no connection whose event id is in the preserve set appears in the
\* output of the inbound pruner or of the outbound pruner, and the pass leaves
\* every preserved connection in the table.
C1_PreserveSetExclusion ==
  last.ran =>
    \A en \in Range(last.events) :
      en.event_id \in last.preserve =>
        /\ en.nk \notin Range(last.pruned_by_ip)
        /\ en.nk \notin Range(last.pruned_by_org)
        /\ en \in Range(events)
        /\ en.event_id \in DOMAIN peers

\* a pass that evicted an outbound peer of an organization and kept a
\* preserved outbound peer of the same organization
C1_Witness ==
  /\ last.ran
  /\ \E en \in entries_of(last.org_events, last.org_peers, TRUE) :
     \E nk \in Range(last.pruned_by_org) :
       /\ en.event_id \in last.preserve
       /\ resolves(en.nk)
       /\ get_peer(peerdb, en.nk, {}).peer = get_peer(peerdb, nk, {}).peer

\* C2: a pass entered with outbound count <= soft_num_neighbors and inbound
\* count <= soft_num_clients deregisters nothing and changes neither
\* telemetry map, whatever the group sizes and the peer database's answers.
C2_IdempotentBelowThreshold ==
  (/\ last.ran
   /\ entry_num_outbound <= soft_num_neighbors
   /\ entry_num_inbound <= soft_num_clients)
  => /\ last.pruned_by_ip = <<>>
     /\ last.pruned_by_org = <<>>
     /\ last.org_status = Ok
     /\ ~crashed
     /\ events = last.events
     /\ peers = last.peers
     /\ prune_inbound_counts = last.inbound_counts
     /\ prune_outbound_counts = last.outbound_counts

\* a pass below both thresholds with a host over its cap, an organization over
\* its cap and a failing peer database
C2_Witness ==
  /\ last.ran
  /\ entry_num_outbound <= soft_num_neighbors
  /\ entry_num_inbound <= soft_num_clients
  /\ last.db_fail # {}
  /\ \E addrbytes \in Addrs :
       Cardinality(entry_host_group(addrbytes)) > soft_max_clients_per_host
  /\ \E org \in Orgs :
       Cardinality({en \in org_candidates : get_peer(peerdb, en.nk, {}).peer = <<org>>})
         > soft_max_neighbors_per_org

\* the outbound count the outbound pruner of the last pass read at line 186
org_num_outbound == count_outbound_conversations(last.org_peers)

\* the last pass went past the fast path of the outbound pruner with no
\* outbound connection preserved, every outbound peer known to the peer
\* database and no lookup failing
C3_Case ==
  /\ last.ran
  /\ org_num_outbound > soft_num_neighbors
  /\ \A en \in entries_of(last.org_events, last.org_peers, TRUE) :
       en.event_id \notin last.preserve /\ resolves(en.nk)
  /\ last.db_fail = {}

\* C3: when the outbound count N exceeds soft_num_neighbors, no outbound
\* connection is preserved and every outbound peer resolves, the outbound
\* pruner completes and returns exactly N - soft_num_neighbors keys.
C3_ConvergesToTarget ==
  C3_Case =>
    /\ last.org_status = Ok
    /\ Len(last.pruned_by_org) = org_num_outbound - soft_num_neighbors

\* C4: whenever the outbound pruner returns keys, the outbound count at entry
\* less the number of keys returned is at least soft_num_neighbors.
C4_NeverOverPrunes ==
  (last.ran /\ last.org_status = Ok /\ last.pruned_by_org # <<>>)
  => org_num_outbound - Len(last.pruned_by_org) >= soft_num_neighbors

\* the keys of pruned_by_ip that belong to an address
pruned_of_host(addrbytes) ==
  {nk \in Range(last.pruned_by_ip) : nk.addrbytes = addrbytes}

first_contact_of(en) == last.peers[en.event_id].stats.first_contact_time

\* C5: when the inbound pruner runs past its fast path, from every address
\* whose group of non-preserved inbound connections exceeds
\* soft_max_clients_per_host it returns exactly the members beyond the first
\* soft_max_clients_per_host in ascending first_contact_time (no retained
\* member is newer than a returned one), from every other group nothing, and
\* nothing else.
C5_PerHostCap ==
  (last.ran /\ entry_num_inbound > soft_num_clients)
  => /\ NoDup(last.pruned_by_ip)
     /\ \A nk \in Range(last.pruned_by_ip) :
          \E en \in entry_host_group(nk.addrbytes) : en.nk = nk
     /\ \A addrbytes \in Addrs :
          LET group == entry_host_group(addrbytes)
              gone == {en \in group : en.nk \in Range(last.pruned_by_ip)}
          IN  /\ Cardinality(gone) =
                   IF Cardinality(group) > soft_max_clients_per_host
                   THEN Cardinality(group) - soft_max_clients_per_host
                   ELSE 0
              /\ \A g \in gone : \A k \in group \ gone :
                   first_contact_of(k) <= first_contact_of(g)

\* the inbound pruner ran on a host holding two connections of two ages and a
\* cap of one: it kept one and returned one
C5_Witness ==
  /\ last.ran
  /\ entry_num_inbound > soft_num_clients
  /\ soft_max_clients_per_host = 1
  /\ \E addrbytes \in Addrs :
       /\ Cardinality(entry_host_group(addrbytes)) = 2
       /\ Cardinality({first_contact_of(en) : en \in entry_host_group(addrbytes)}) = 2
       /\ Cardinality(pruned_of_host(addrbytes)) = 1

\* C6 as claimed: after a pass whose disconnects all succeed, every address
\* has at most soft_max_clients_per_host inbound connections in the table
\* unless none of them is non-preserved, whatever the inbound count is
\* relative to soft_num_clients.
C6_PerHostCeilingAlways ==
  (last.ran /\ last.dereg_fail = {})
  => \A addrbytes \in Addrs :
       \/ Cardinality(host_now(addrbytes)) <= soft_max_clients_per_host
       \/ \A en \in host_now(addrbytes) : en.event_id \in last.preserve

\* C6 as amended: after a pass whose disconnects all succeed and that was
\* entered with more than soft_num_clients inbound connections, every address
\* has at most soft_max_clients_per_host non-preserved inbound connections
\* in the table.
C6_PerHostCeiling ==
  (last.ran /\ last.dereg_fail = {} /\ entry_num_inbound > soft_num_clients)
  => \A addrbytes \in Addrs :
       Cardinality({en \in host_now(addrbytes) : en.event_id \notin last.preserve})
         <= soft_max_clients_per_host

\* such a pass cut a host back to its cap beside a preserved connection of
\* the same host
C6_Witness ==
  /\ last.ran
  /\ last.dereg_fail = {}
  /\ entry_num_inbound > soft_num_clients
  /\ \E addrbytes \in Addrs :
       /\ pruned_of_host(addrbytes) # {}
       /\ \E en \in host_now(addrbytes) : en.event_id \in last.preserve
       /\ Cardinality(host_now(addrbytes)) > soft_max_clients_per_host

\* C7: the outputs of the inbound and of the outbound pruner of one pass
\* hold no key twice between them, and neither is longer than the number of
\* non-preserved connections of its direction in the table it was computed
\* from.
C7_NoDoubleEviction ==
  last.ran =>
    /\ NoDup(last.pruned_by_ip \o last.pruned_by_org)
    /\ Len(last.pruned_by_ip) <=
         Cardinality({en \in entries_of(last.events, last.peers, FALSE) :
                        en.event_id \notin last.preserve})
    /\ Len(last.pruned_by_org) <= Cardinality(org_candidates)

\* a pass whose outbound pruner trimmed an organization to its cap and then
\* sampled it again
C7_Witness ==
  /\ last.ran
  /\ Len(last.pruned_by_org) >= 2
  /\ soft_max_neighbors_per_org >= 1

\* the counters of a telemetry map after a pass that pruned the given keys:
\* one more for a key of the list, the same for every other key
counted_once(before, after, pruned) ==
  /\ DOMAIN after = DOMAIN before \cup Range(pruned)
  /\ \A nk \in DOMAIN after :
       after[nk] = count_of(before, nk) + (IF nk \in Range(pruned) THEN 1 ELSE 0)

\* C8: no step lowers a telemetry counter, and a pass raises the inbound
\* counter of exactly the keys its inbound pruner returned, and the outbound
\* counter of exactly the keys its outbound pruner returned, by exactly 1
\* (a key with no entry gets the entry 1).
C8_TelemetryExact ==
  [][/\ \A nk \in DOMAIN prune_inbound_counts :
          count_of(prune_inbound_counts', nk) >= prune_inbound_counts[nk]
     /\ \A nk \in DOMAIN prune_outbound_counts :
          count_of(prune_outbound_counts', nk) >= prune_outbound_counts[nk]
     /\ (~last.ran /\ last'.ran) =>
          /\ counted_once(prune_inbound_counts, prune_inbound_counts',
                          last'.pruned_by_ip)
          /\ counted_once(prune_outbound_counts, prune_outbound_counts',
                          last'.pruned_by_org)]_vars

\* a key the inbound pruner returned in two passes stands at 2
C8_Witness ==
  /\ last.ran
  /\ \E nk \in Range(last.pruned_by_ip) :
       count_of(last.inbound_counts, nk) = 1 /\ count_of(prune_inbound_counts, nk) = 2

\* the last pass went past the fast path of the outbound pruner and a lookup
\* it made failed
C9_Case ==
  /\ last.ran
  /\ org_num_outbound > soft_num_neighbors
  /\ \E en \in org_candidates : en.nk \in last.db_fail

\* C9: when a peer database lookup fails while the organization distribution
\* is built, the outbound pruner returns an error, the pass deregisters no
\* outbound connection and changes no outbound counter, keeps the inbound
\* disconnects and inbound counters it had made, and returns.
C9_DatabaseErrorPrunesNothing ==
  C9_Case =>
    /\ last.org_status = Err
    /\ last.pruned_by_org = <<>>
    /\ ~crashed
    /\ events = last.org_events
    /\ peers = last.org_peers
    /\ prune_outbound_counts = last.outbound_counts
    /\ counted_once(last.inbound_counts, prune_inbound_counts, last.pruned_by_ip)

\* such a pass had disconnected an inbound connection before the lookup failed
C9_Witness ==
  /\ C9_Case
  /\ last.pruned_by_ip # <<>>
  /\ Len(events) < Len(last.events)

\* C10: an outbound connection whose address the peer database does not know
\* is in no organization's list and is never in the output of the outbound
\* pruner.
C10_UnresolvedNeverEvicted ==
  last.ran =>
    \A en \in entries_of(last.org_events, last.org_peers, TRUE) :
      ~resolves(en.nk) =>
        /\ en.nk \notin Range(last.pruned_by_org)
        /\ LET dist == org_neighbor_distribution(last.org_events, last.org_peers,
                                                 peerdb, {}, last.preserve)
           IN  \A org \in DOMAIN dist.map : \A i \in DOMAIN dist.map[org] :
                 dist.map[org][i].nk # en.nk

\* the outbound pruner evicted every candidate it had and the outbound count
\* stays above soft_num_neighbors because of an unknown peer
C10_Witness ==
  /\ last.ran
  /\ last.org_status = Ok
  /\ last.pruned_by_org # <<>>
  /\ org_num_outbound - Len(last.pruned_by_org) > soft_num_neighbors
  /\ \E en \in org_candidates : ~resolves(en.nk)

\* the uptime bucket of a stats record at Now
bucket_of(stats) == uptime_bucket(Now - stats.first_contact_time)

\* C11: compare_neighbor_uptime_health is a total ordering at a fixed now:
\* compare(a, b) is Less exactly when compare(b, a) is Greater, Equal exactly
\* when compare(b, a) is Equal, and Less is transitive.
C11_TotalOrdering ==
  (call.op = "compare" /\ call.done)
  => /\ (call.ab = Less) <=> (call.ba = Greater)
     /\ (call.ab = Equal) <=> (call.ba = Equal)
     /\ (call.ab = Less /\ call.bc = Less) => call.ac = Less

\* the draws for which the sampler returns the key of entry i of the mapping
draws_returning(org_weights, i) ==
  {sample \in sample_draws(org_weights) :
     sample_org_by_neighbor_count(org_weights, sample) = <<org_weights[i].org>>}

\* C12: for a mapping with a positive weight, in every iteration order, every
\* draw in [0, total) makes the org sampler return one key, of positive
\* weight, and each key is returned for as many draws as its weight.
C12_WeightProportional ==
  (call.op = "sample_org" /\ call.done /\ sample_draws(call.org_weights) # {})
  => /\ ~call.panicked
     /\ \E i \in DOMAIN call.org_weights :
          /\ call.result = <<call.org_weights[i].org>>
          /\ call.org_weights[i].count > 0
     /\ \A i \in DOMAIN call.org_weights :
          Cardinality(draws_returning(call.org_weights, i))
            = call.org_weights[i].count

\* the sampler returned the key of weight 3 of a mapping that also holds a key
\* of weight 1 and, before both, a key of weight 0
C12_Witness ==
  /\ call.op = "sample_org"
  /\ call.done
  /\ Len(call.org_weights) = 3
  /\ call.org_weights[1].count = 0
  /\ \E i, j \in 2..3 :
       /\ call.org_weights[i].count = 1
       /\ call.org_weights[j].count = 3
       /\ call.result = <<call.org_weights[j].org>>

\* the cells of [0, 1) on which the drop sampler returns the key of entry i
cells_returning(drop_prob, i) ==
  {cell \in drop_cells(drop_prob) :
     sample_drop_probability(cell, drop_prob) = <<drop_prob[i].nk>>}

\* C13: for a mapping of positive sum, in every iteration order, the sample
\* points for which the drop sampler returns a key have measure weight / sum
\* (weight cells of measure 1 / sum each), so the key it returns has a
\* nonzero weight.
C13_DropProportional ==
  (call.op = "sample_drop" /\ call.done /\ drop_sum(call.drop_prob, 1) > 0)
  => /\ ~call.panicked
     /\ \E i \in DOMAIN call.drop_prob :
          call.result = <<call.drop_prob[i].nk>> /\ call.drop_prob[i].v > 0
     /\ \A i \in DOMAIN call.drop_prob :
          Cardinality(cells_returning(call.drop_prob, i)) = call.drop_prob[i].v

\* the sorted organization lists the outbound pruner of the last pass had
\* after line 208
last_sorted ==
  LET dist == org_neighbor_distribution(last.org_events, last.org_peers, peerdb,
                                        last.db_fail, last.preserve)
  IN  [org \in DOMAIN dist.map |-> sort_by(dist.map[org], ByUptimeHealth)]

\* the hard-trim phase of that pruner once it has processed the first j
\* organizations of an iteration order
trim_after(orgs, j) ==
  hard_trim(last_sorted, SubSeq(orgs, 1, j), 1, <<>>, org_num_outbound,
            soft_num_neighbors, soft_max_neighbors_per_org)

\* the last pass went past the fast path of the outbound pruner and built the
\* organization lists
trim_ran ==
  /\ last.ran
  /\ org_num_outbound > soft_num_neighbors
  /\ last.org_status # Err

\* C14: when hard-trim processes an organization whose list has more than
\* soft_max_neighbors_per_org members and the global target is not reached
\* while it does, it takes exactly size - soft_max_neighbors_per_org members
\* from the front of the list, appends each to the result and leaves
\* soft_max_neighbors_per_org candidates, for the first over-cap organization
\* and for every later one.
C14_HardTrimBookkeeping ==
  trim_ran =>
    \A orgs \in Orderings(DOMAIN last_sorted) : \A j \in 1..Len(orgs) :
      LET before == trim_after(orgs, j - 1)
          after == trim_after(orgs, j)
          size == Len(before.map[orgs[j]])
          excess == size - soft_max_neighbors_per_org
      IN  (/\ ~before.panic
           /\ excess > 0
           /\ org_num_outbound - (Len(before.ret) + excess) > soft_num_neighbors)
          => /\ ~after.panic
             /\ Len(after.map[orgs[j]]) = soft_max_neighbors_per_org
             /\ after.ret = before.ret \o
                  [i \in 1..excess |-> before.map[orgs[j]][i].nk]
             /\ after.map[orgs[j]] = DropFront(before.map[orgs[j]], excess)

\* C15: whenever the outbound pruner returns a list, either the outbound count
\* at entry less the length of the list is at most soft_num_neighbors, or
\* every non-preserved outbound connection the peer database resolves is in
\* the list: no candidate leaves its organization's list unreturned.
C15_TargetMetOrExhausted ==
  (trim_ran /\ last.org_status = Ok)
  => \/ org_num_outbound - Len(last.pruned_by_org) <= soft_num_neighbors
     \/ \A en \in org_candidates :
          resolves(en.nk) => en.nk \in Range(last.pruned_by_org)

\* C16: the outbound pruner never panics: it removes from or indexes no
\* organization list past its length, reaches no unreachable!(), and returns
\* no more keys than there are outbound connections (the count of line 225
\* never goes below zero), so no pass ends the process.
C16_NeverCrashes ==
  last.ran =>
    /\ last.org_status # Panic
    /\ ~crashed
    /\ Len(last.pruned_by_org) <= org_num_outbound

\* C17: when the uptime buckets of two records differ the comparator answers
\* by the buckets alone, Less for a lower first bucket and Greater for a
\* higher one, whatever the health scores.
C17_BucketDominance ==
  (call.op = "compare" /\ call.done)
  => /\ bucket_of(call.a) < bucket_of(call.b) => call.ab = Less
     /\ bucket_of(call.a) > bucket_of(call.b) => call.ab = Greater

\* stats1 ranks strictly below stats2 in (uptime bucket, then health score)
\* order
ranks_below(stats1, stats2) ==
  \/ bucket_of(stats1) < bucket_of(stats2)
  \/ /\ bucket_of(stats1) = bucket_of(stats2)
     /\ get_health_score(stats1) < get_health_score(stats2)

\* the stats the outbound pruner of the last pass saw for a connection
org_stats_of(en) == last.org_peers[en.event_id].stats

\* C18: no candidate the outbound pruner retains ranks strictly below, in
\* (uptime bucket, then health score) order, a candidate of the same
\* organization that it returns, in whatever order the table is iterated.
C18_WorstFirst ==
  (last.ran /\ last.org_status = Ok)
  => \A evicted \in org_candidates : \A retained \in org_candidates :
       (/\ evicted.nk \in Range(last.pruned_by_org)
        /\ retained.nk \notin Range(last.pruned_by_org)
        /\ resolves(retained.nk)
        /\ get_peer(peerdb, retained.nk, {}).peer
             = get_peer(peerdb, evicted.nk, {}).peer)
       => ~ranks_below(org_stats_of(retained), org_stats_of(evicted))

\* how many times the last pass called deregister_neighbor with a key
attempts_of(nk) == Cardinality({i \in DOMAIN last.attempts : last.attempts[i] = nk})

in_table(nk) == \E en \in Range(events) : en.nk = nk

\* C19: when the disconnect of a returned key fails and leaves the connection
\* in the table, the pass still raises that key's counter by exactly 1, calls
\* deregister_neighbor for it once only, and goes on: every other returned
\* key is disconnected and counted, and the outbound pruner runs on the table
\* the inbound disconnects left.
C19_FailedDisconnectCounted ==
  (last.ran /\ last.dereg_fail # {})
  => /\ \A nk \in last.dereg_fail :
          /\ in_table(nk)
          /\ attempts_of(nk) = 1
          /\ nk \in Range(last.pruned_by_ip) =>
               count_of(prune_inbound_counts, nk)
                 = count_of(last.inbound_counts, nk) + 1
          /\ nk \in Range(last.pruned_by_org) =>
               count_of(prune_outbound_counts, nk)
                 = count_of(last.outbound_counts, nk) + 1
     /\ \A nk \in Range(last.pruned_by_ip) \ last.dereg_fail :
          /\ ~in_table(nk)
          /\ count_of(prune_inbound_counts, nk)
               = count_of(last.inbound_counts, nk) + 1
     /\ \A nk \in Range(last.pruned_by_org) \ last.dereg_fail :
          /\ ~in_table(nk)
          /\ count_of(prune_outbound_counts, nk)
               = count_of(last.outbound_counts, nk) + 1
     /\ last.org_events =
          SelectSeq(last.events, LAMBDA en :
            en.nk \notin Range(last.pruned_by_ip) \ last.dereg_fail)

\* the disconnect of a key the inbound pruner returned failed, and the pass
\* went on to disconnect a key its outbound pruner returned
C19_Witness ==
  /\ last.ran
  /\ ~crashed
  /\ \E nk \in Range(last.pruned_by_ip) : nk \in last.dereg_fail
  /\ \E nk \in Range(last.pruned_by_org) :
       nk \notin last.dereg_fail /\ ~in_table(nk)

\* the inbound connection count of a peers map
count_inbound(prs) == num_peers(prs) - count_outbound_conversations(prs)

\* C20: the inbound pruner returns only keys of inbound connections and the
\* outbound pruner only keys of outbound connections, so the inbound phase
\* of a pass leaves the outbound connection count as it was and the outbound
\* phase leaves the inbound connection count as it was.
C20_DirectionSeparation ==
  last.ran =>
    /\ \A nk \in Range(last.pruned_by_ip) :
         \E en \in entries_of(last.events, last.peers, FALSE) : en.nk = nk
    /\ \A nk \in Range(last.pruned_by_org) :
         \E en \in entries_of(last.org_events, last.org_peers, TRUE) : en.nk = nk
    /\ count_outbound_conversations(last.org_peers)
         = count_outbound_conversations(last.peers)
    /\ count_inbound(peers) = count_inbound(last.org_peers)

\* a pass disconnected an inbound connection from an address and an outbound
\* connection to the same address
C20_Witness ==
  /\ last.ran
  /\ last.dereg_fail = {}
  /\ \E nk_in \in Range(last.pruned_by_ip) : \E nk_out \in Range(last.pruned_by_org) :
       /\ nk_in.addrbytes = nk_out.addrbytes
       /\ ~in_table(nk_in)
       /\ ~in_table(nk_out)

\* ------------------------------------------------------------ C21

\* an iteration of the sampling loop takes exactly one member off one
\* organization's list and appends its key to ret
iteration_removes_one ==
  (call.op = "outbound_orgs" /\ call.pc = "loop" /\ call'.pc = "loop"
     /\ call' # call)
  => /\ call'.iterations = call.iterations + 1
     /\ members_left(call'.org_neighbors) = members_left(call.org_neighbors) - 1
     /\ \E org \in DOMAIN call.org_neighbors :
          /\ call.org_neighbors[org] # <<>>
          /\ call'.org_neighbors =
               [call.org_neighbors EXCEPT ![org] = DropFront(@, 1)]
          /\ call'.ret = Append(call.ret, call.org_neighbors[org][1].nk)

\* the loop never runs more iterations than it had candidates when it began
iterations_bounded ==
  call.op = "outbound_orgs" => call.iterations <= call.candidates

\* the loop is only left with the target reached or no members anywhere
exit_justified ==
  (call.op = "outbound_orgs" /\ call.pc = "returned" /\ call.status = Ok
     /\ call.num_outbound > soft_num_neighbors)
  => \/ call.num_outbound - Len(call.ret) <= soft_num_neighbors
     \/ \A org \in DOMAIN call.org_neighbors : call.org_neighbors[org] = <<>>

\* a call that reached the sampling loop returns
loop_returns ==
  (call.op = "outbound_orgs" /\ call.pc = "loop") ~> (call.pc = "returned")

\* the step-by-step call ends as prune_frontier_outbound_orgs says it can
steps_agree ==
  (call.op = "outbound_orgs" /\ call.pc \in {"returned", "panicked"})
  => [status |-> call.status, ret |-> call.ret]
       \in prune_frontier_outbound_orgs(events, peers, peerdb,
             soft_num_neighbors, soft_max_neighbors_per_org, call.db_fail,
             call.preserve, call.orgs)

\* C21: every pruning pass terminates: each iteration of the sampling loop
\* removes exactly one candidate from some organization's list, the loop runs
\* at most as many iterations as there are candidates and ends with the target
\* reached or no organization with members left, and the call returns.
C21_PassTerminates ==
  /\ [][iteration_removes_one]_vars
  /\ []iterations_bounded
  /\ []exit_justified
  /\ <>(call.op = "outbound_orgs" /\ call.pc = "returned")

\* ------------------------------------------------------------ C22

\* the rows the table holds for a name
rows_of(table, contract_name) ==
  SelectSeq(table, LAMBDA row : row.contract_name = contract_name)

store_ops ==
  {"begin_save_point", "roll_back", "commit", "insert_contract",
   "get_public_function_type", "get_map_type"}

\* C22: the analysis store never overwrites a contract: insert_contract for a
\* name that is already stored returns ContractAlreadyExists and leaves what is
\* stored for the name as it was, so no name has two rows and, between
\* roll_backs, at most one insert per name succeeds; get_public_function_type
\* and get_map_type for a name that is not stored return NoSuchContract.
C22_NeverOverwrites ==
  /\ (call.op = "insert_contract"
        /\ call.contract_name \in names_stored(call.before))
     => /\ call.result = CheckErr(<<"ContractAlreadyExists", call.contract_name>>)
        /\ rows_of(conn, call.contract_name)
             = rows_of(call.before, call.contract_name)
  /\ \A contract_name \in ContractNames : Len(rows_of(conn, contract_name)) <= 1
  /\ call.op \in store_ops => NoDup(call.inserted)
  /\ (call.op \in {"get_public_function_type", "get_map_type"}
        /\ call.contract_name \notin names_stored(call.before))
     => call.result = CheckErr(<<"NoSuchContract", call.contract_name>>)

\* insert_contract was called for a stored name with another analysis than the
\* stored one, after an insert of that name had succeeded
C22_Witness ==
  /\ call.op = "insert_contract"
  /\ call.contract_name \in Range(call.inserted)
  /\ rows_of(call.before, call.contract_name) # <<>>
  /\ rows_of(call.before, call.contract_name)[1].analysis
       # serialize(call.contract[1])
  /\ call.result.status = Err

====
